---- MODULE Spec2Model ----
(***************************************************************************)
(* awsmfa: exchange a long-lived identity's credentials and an MFA token   *)
(* code for temporary credentials and rewrite a profile of the shared      *)
(* credentials file (src/awsmfa/__main__.py).                              *)
(*                                                                         *)
(* The credentials file is a sequence of lines (section headers and        *)
(* "key = value" options); the in-memory ConfigParser is an ordered list   *)
(* of sections, each an ordered list of options.  The file system has      *)
(* inodes and directory entries, so that an open file descriptor keeps     *)
(* writing to its inode after the path was renamed or re-opened.           *)
(***************************************************************************)
EXTENDS Integers, Sequences, FiniteSets, TLC

\* ---------------------------------------------------------------- constants
SIX_HOURS_IN_SECONDS == 21600
OK == 0
USER_RECOVERABLE_ERROR == 1
\* configparser.MAX_INTERPOLATION_DEPTH, used by credentials.items()
MAX_INTERPOLATION_DEPTH == 10
\* the role-assumption cap of main(): min(args.duration, 3600)
ONE_HOUR_IN_SECONDS == 3600

\* ------------------------------------------------------------------- bounds
\* how many times the operator may answer the token prompt in one run
MaxPrompts == 2
\* how many MFA devices a listing may return
MaxDevices == 2

None == "<None>"
Procs == {1, 2}

\* Python truthiness of an optional string (None and "" are falsy)
Truthy(s) == s # None /\ s # ""

Min(a, b) == IF a <= b THEN a ELSE b

\* ------------------------------------------------------- credentials file
\* A line of the file: a section header "[a]", an option "a = b", or a
\* run of NUL bytes (the hole left by writing past the end of a file).
Sec(n) == [t |-> "sec", a |-> n, b |-> ""]
Opt(k, v) == [t |-> "opt", a |-> k, b |-> v]
Nul == [t |-> "nul", a |-> "", b |-> ""]

\* ConfigParser.optionxform: option names are lower-cased on read and set
optionxform_verbatim(k) == k
optionxform(k) ==
    CASE k = "Region" -> "region"
      [] k = "S3" -> "s3"
      [] OTHER -> k

\* the parser's sections: <<[name, opts]>>, opts: <<[k, v]>>
HasSection(store, n) == \E i \in 1..Len(store) : store[i].name = n
HasOption(opts, k) == \E i \in 1..Len(opts) : opts[i].k = k
SectionOf(store, n) == store[CHOOSE i \in 1..Len(store) : store[i].name = n]
ValueOf(opts, k) == opts[CHOOSE i \in 1..Len(opts) : opts[i].k = k].v
\* a section as a mapping: the set of its (key, value) pairs
Fields(opts) == {opts[i] : i \in 1..Len(opts)}
SectionNames(store) == {store[i].name : i \in 1..Len(store)}

\* ConfigParser.read on one file (strict mode): a header opens a section,
\* an option goes to the open section under its lower-cased name; a
\* repeated section or option, an option before any header, or garbage is
\* a parsing error.
RECURSIVE ParseFrom(_, _, _)
ParseFrom(lines, i, store) ==
    IF i > Len(lines) THEN [ok |-> TRUE, store |-> store]
    ELSE LET l == lines[i] IN
      IF l.t = "sec" THEN
        IF HasSection(store, l.a) THEN [ok |-> FALSE, store |-> store]
        ELSE ParseFrom(lines, i + 1, Append(store, [name |-> l.a, opts |-> <<>>]))
      ELSE IF l.t = "opt" THEN
        IF store = <<>> THEN [ok |-> FALSE, store |-> store]
        ELSE LET k == optionxform(l.a)
                 n == Len(store) IN
          IF HasOption(store[n].opts, k) THEN [ok |-> FALSE, store |-> store]
          ELSE ParseFrom(lines, i + 1,
                 [store EXCEPT ![n].opts = Append(@, [k |-> k, v |-> l.b])])
      ELSE [ok |-> FALSE, store |-> store]

Parse(lines) == ParseFrom(lines, 1, <<>>)

\* ConfigParser.write: every section in order, its header then its options
RECURSIVE OptLines(_, _)
OptLines(opts, i) ==
    IF i > Len(opts) THEN <<>>
    ELSE <<Opt(opts[i].k, opts[i].v)>> \o OptLines(opts, i + 1)

RECURSIVE SerializeFrom(_, _)
SerializeFrom(store, i) ==
    IF i > Len(store) THEN <<>>
    ELSE <<Sec(store[i].name)>> \o OptLines(store[i].opts, 1)
           \o SerializeFrom(store, i + 1)

Serialize(store) == SerializeFrom(store, 1)

\* ----------------------------------------------------- value interpolation
\* BasicInterpolation sees four shapes of value: no "%" at all, a reference
\* "%(name)s", an escaped percent "%%", and a bare "%" (a syntax error).
ValKind(v) ==
    CASE v = "%(region)s" -> "ref"
      [] v = "100%%" -> "esc"
      [] v = "100%" -> "bad"
      [] OTHER -> "plain"
RefName(v) == "region"
Unescape(v) == "100%"

\* BasicInterpolation.before_get / _interpolate_some over the section d
RECURSIVE before_get(_, _, _)
before_get(v, d, depth) ==
    IF ValKind(v) = "plain" THEN [ok |-> TRUE, v |-> v]
    ELSE IF depth > MAX_INTERPOLATION_DEPTH THEN [ok |-> FALSE, v |-> v]
    ELSE IF ValKind(v) = "esc" THEN [ok |-> TRUE, v |-> Unescape(v)]
    ELSE IF ValKind(v) = "bad" THEN [ok |-> FALSE, v |-> v]
    ELSE LET name == optionxform(RefName(v)) IN
         IF ~HasOption(d, name) THEN [ok |-> FALSE, v |-> v]
         ELSE before_get(ValueOf(d, name), d, depth + 1)

\* BasicInterpolation.before_set: a value with a bare "%" is refused
before_set_ok(v) == ValKind(v) # "bad"

\* ConfigParser.items(section): every option with its interpolated value,
\* all computed before the caller sees the first one
RECURSIVE ItemsFrom(_, _)
ItemsFrom(d, i) ==
    IF i > Len(d) THEN [ok |-> TRUE, items |-> <<>>]
    ELSE LET g == before_get(d[i].v, d, 1)
             rest == ItemsFrom(d, i + 1) IN
         IF g.ok /\ rest.ok
         THEN [ok |-> TRUE, items |-> <<[k |-> d[i].k, v |-> g.v]>> \o rest.items]
         ELSE [ok |-> FALSE, items |-> <<>>]

\* ConfigParser.set(section, k, v) on the option list of a section
SetOption(opts, k, v) ==
    LET key == optionxform(k) IN
    IF HasOption(opts, key)
    THEN [i \in 1..Len(opts) |-> IF opts[i].k = key THEN [k |-> key, v |-> v] ELSE opts[i]]
    ELSE Append(opts, [k |-> key, v |-> v])

\* ConfigParser.remove_section
RemoveSection(store, n) == SelectSeq(store, LAMBDA s : s.name # n)

\* datetime.isoformat() of the expiration instants the service may return
isoformat(t) ==
    CASE t = 1 -> "2026-01-01T01:00:00+00:00"
      [] t = 2 -> "2026-01-01T06:00:00+00:00"
      [] OTHER -> "2026-01-01T00:00:00+00:00"


\* ------------------------------------------------- update_credentials_file
\* the loop "for k, v in credentials.items(identity): credentials.set(...)":
\* set refuses a value with a bare "%" and the loop stops there
RECURSIVE CopyFrom(_, _, _)
CopyFrom(opts, items, i) ==
    IF i > Len(items) THEN [ok |-> TRUE, opts |-> opts]
    ELSE IF ~before_set_ok(items[i].v) THEN [ok |-> FALSE, opts |-> opts]
    ELSE CopyFrom(SetOption(opts, items[i].k, items[i].v), items, i + 1)

\* the four fields written from the temporary credentials
SetTemporary(opts, tc) ==
    SetOption(SetOption(SetOption(SetOption(opts,
        "aws_access_key_id", tc.AccessKeyId),
        "aws_secret_access_key", tc.SecretAccessKey),
        "aws_session_token", tc.SessionToken),
        "awsmfa_expiration", isoformat(tc.Expiration))

\* a variant that sets the fields on the target section as it is, without
\* removing it first
ReplaceKeepingTarget(store, identity, target, tc) ==
    LET n == IF HasSection(store, target)
             THEN CHOOSE i \in 1..Len(store) : store[i].name = target
             ELSE 0
        s2 == IF n = 0 THEN Append(store, [name |-> target, opts |-> <<>>]) ELSE store
        m == IF n = 0 THEN Len(s2) ELSE n IN
    IF ~HasSection(s2, identity) THEN [ok |-> FALSE, store |-> s2]
    ELSE LET it == ItemsFrom(SectionOf(s2, identity).opts, 1) IN
      IF ~it.ok THEN [ok |-> FALSE, store |-> s2]
      ELSE LET c == CopyFrom(s2[m].opts, it.items, 1) IN
        IF ~c.ok THEN [ok |-> FALSE, store |-> [s2 EXCEPT ![m].opts = c.opts]]
        ELSE [ok |-> TRUE, store |-> [s2 EXCEPT ![m].opts = SetTemporary(c.opts, tc)]]

\* a variant that patches the target section incrementally: a field the
\* target already holds keeps its value, only missing fields are added
RECURSIVE AddMissing(_, _, _)
AddMissing(opts, items, i) ==
    IF i > Len(items) THEN opts
    ELSE AddMissing(IF HasOption(opts, items[i].k) THEN opts
                    ELSE Append(opts, items[i]), items, i + 1)

ReplaceOnlyMissing(store, identity, target, tc) ==
    LET n == IF HasSection(store, target)
             THEN CHOOSE i \in 1..Len(store) : store[i].name = target
             ELSE 0
        s2 == IF n = 0 THEN Append(store, [name |-> target, opts |-> <<>>]) ELSE store
        m == IF n = 0 THEN Len(s2) ELSE n IN
    IF ~HasSection(s2, identity) THEN [ok |-> FALSE, store |-> s2]
    ELSE LET it == ItemsFrom(SectionOf(s2, identity).opts, 1) IN
      IF ~it.ok THEN [ok |-> FALSE, store |-> s2]
      ELSE [ok |-> TRUE,
            store |-> [s2 EXCEPT ![m].opts =
                         AddMissing(AddMissing(@, SetTemporary(<<>>, tc), 1),
                                    it.items, 1)]]

\* lines 190-201: remove and re-add the target section, copy the identity
\* section's items into it, set the four temporary fields.  ok = FALSE is
\* an exception (NoSectionError, an interpolation error, ValueError); the
\* store is then left as far as the code got.
ReplaceProfile(store, identity, target, tc) ==
    LET s1 == RemoveSection(store, target)
        s2 == Append(s1, [name |-> target, opts |-> <<>>])
        m == Len(s2) IN
    IF ~HasSection(s2, identity) THEN [ok |-> FALSE, store |-> s2]
    ELSE LET it == ItemsFrom(SectionOf(s2, identity).opts, 1) IN
      IF ~it.ok THEN [ok |-> FALSE, store |-> s2]
      ELSE LET c == CopyFrom(<<>>, it.items, 1) IN
        IF ~c.ok THEN [ok |-> FALSE, store |-> [s2 EXCEPT ![m].opts = c.opts]]
        ELSE [ok |-> TRUE, store |-> [s2 EXCEPT ![m].opts = SetTemporary(c.opts, tc)]]

\* ------------------------------------------------------------- file system
CredPath == "~/.aws/credentials"
TmpPath == "~/.aws/credentials.tmp"
Paths == {CredPath, TmpPath}

\* line 202: args.aws_credentials + ".tmp"
TempInPlace(path) == path
TempFile(path) == IF path = CredPath THEN TmpPath ELSE path

\* write(2) of chunk at offset off of a file holding content: bytes past
\* the end of the file leave a hole
RECURSIVE Holes(_)
Holes(n) == IF n <= 0 THEN <<>> ELSE <<Nul>> \o Holes(n - 1)

WriteAt(content, off, chunk) ==
    LET padded == IF Len(content) < off
                  THEN content \o Holes(off - Len(content))
                  ELSE content IN
    SubSeq(padded, 1, off) \o chunk
        \o SubSeq(padded, off + Len(chunk) + 1, Len(padded))

\* what opening a file for reading does to its content: nothing
ReadTruncates(content) == <<>>
ReadEffect(content) == content

\* --------------------------------------------------------- main's decisions
\* line 41: "if not serial_number"
NotFoundOnlyEmpty(serial) == serial = ""
NotFound(serial) == ~Truthy(serial)

\* lines 180-186: None for an empty list, else its first element
FirstSerial(serials) == IF serials = <<>> THEN None ELSE serials[1]

\* line 160: "if user_specified_serial"
NeverExplicit(serial) == FALSE
ExplicitSerialGiven(serial) == Truthy(serial)

\* line 47: the prompt loop's condition
NeedsPromptOnlyEmpty(tc) == tc = None \/ tc = ""
NeedsPrompt(tc) == tc = None \/ Len(tc) # 6

\* lines 54 and 61: DurationSeconds of the call
DurationUnclamped(role, d) == d
DurationSeconds(role, d) ==
    IF Truthy(role) THEN Min(d, ONE_HOUR_IN_SECONDS) ELSE d

\* lines 208-210: sys.exit(main()): the status main returned, or, when main
\* raised, the interpreter's status for an uncaught exception
exit_status(r) == IF r.kind = "return" THEN r.status ELSE 1

\* line 65: which ClientError of the session call is user-recoverable
EveryErrorRecoverable(code) == TRUE
IsRecoverable(code) == code = "AccessDenied"


\* ------------------------------------------------------------------- inputs
\* credentials files an invocation may find (the file may also be missing)
IdentityKeys == <<Opt("aws_access_key_id", "AKIAIDENT"),
                  Opt("aws_secret_access_key", "secretI")>>
StaleDefault == <<Sec("default"), Opt("aws_access_key_id", "ASIAOLD"),
                  Opt("aws_session_token", "tokenOLD"), Opt("stale", "x")>>
OtherLower == <<Sec("other"), Opt("aws_access_key_id", "AKIAOTHER"),
                Opt("region", "eu-west-1")>>
OtherMixed == <<Sec("other"), Opt("aws_access_key_id", "AKIAOTHER"),
                Opt("Region", "eu-west-1")>>

FileLower == <<Sec("identity")>> \o IdentityKeys \o <<Opt("region", "us-east-1")>>
                 \o StaleDefault \o OtherLower
FileMixed == <<Sec("identity")>> \o IdentityKeys \o <<Opt("region", "us-east-1")>>
                 \o StaleDefault \o OtherMixed
FileNoTarget == <<Sec("identity")>> \o IdentityKeys \o <<Opt("S3", "v4")>>
FileRef == <<Sec("identity")>> \o IdentityKeys
               \o <<Opt("region", "us-east-1"), Opt("s3", "%(region)s")>> \o OtherLower
FileEsc == <<Sec("identity")>> \o IdentityKeys \o <<Opt("s3", "100%%")>> \o StaleDefault
FileDangling == <<Sec("identity")>> \o IdentityKeys \o <<Opt("s3", "%(region)s")>>
FileLoop == <<Sec("identity"), Opt("region", "%(region)s")>> \o OtherLower
FileNoIdentity == StaleDefault \o OtherLower
FileMalformed == <<Opt("region", "us-east-1"), Sec("identity")>>
FileDuplicate == <<Sec("identity"), Opt("region", "a"), Opt("Region", "b")>>

WellFormedFiles == {FileLower, FileMixed, FileNoTarget, FileRef, FileEsc,
                    FileDangling, FileLoop, FileNoIdentity}
Files == WellFormedFiles \cup {FileMalformed, FileDuplicate}

\* what a run that died mid-write may have left at the temporary path
StaleTmp == <<Sec("identity"), Opt("aws_access_key_id", "AKIAIDENT")>>

ProfileNames == {"identity", "default"}
SerialArgs == {None, "", "arn:aws:iam::1:mfa/explicit"}
DeviceSerials == {"arn:aws:iam::1:mfa/a", "arn:aws:iam::1:mfa/b"}
TokenArgs == {None, "123456", "12345"}
TypedCodes == {"654321", "65432", ""}
RoleArgs == {None, "", "arn:aws:iam::1:role/r"}
Durations == {900, ONE_HOUR_IN_SECONDS, ONE_HOUR_IN_SECONDS + 1, SIX_HOURS_IN_SECONDS}
ServiceErrors == {"AccessDenied", "ServiceUnavailable"}

TempCreds == {[AccessKeyId |-> "ASIANEW1", SecretAccessKey |-> "secretN1",
               SessionToken |-> "tokenN1", Expiration |-> 1],
              [AccessKeyId |-> "ASIANEW2", SecretAccessKey |-> "secretN2",
               SessionToken |-> "tokenN2", Expiration |-> 2]}
NoCreds == [AccessKeyId |-> "", SecretAccessKey |-> "", SessionToken |-> "",
            Expiration |-> 0]

\* the result of parse_args
Args(version, identity, target, serial, token, role, duration) ==
    [version |-> version, aws_credentials |-> CredPath, duration |-> duration,
     identity_profile |-> identity, serial_number |-> serial,
     target_profile |-> target, role_to_assume |-> role,
     role_session_name |-> "awsmfa_20260101T000000", token_code |-> token]

DefaultArgs == Args(FALSE, "identity", "default", None, None, None,
                    SIX_HOURS_IN_SECONDS)

\* lists of at most n device serials, in the order the listing returns them
RECURSIVE SerialLists(_)
SerialLists(n) ==
    IF n = 0 THEN {<<>>}
    ELSE SerialLists(n - 1)
         \cup {Append(l, d) : l \in {x \in SerialLists(n - 1) : Len(x) = n - 1},
                              d \in DeviceSerials}

\* -------------------------------------------------------------------- state
VARIABLES
    args,         \* per process: the parsed arguments (token_code is assigned by the prompt)
    pc,           \* per process: where main() is
    credentials,  \* per process: the ConfigParser's sections
    loaded,       \* per process: the sections as credentials.read left them
    serial,       \* per process: serial_number of main()
    user,         \* per process: "root" or "user", from get_user
    response,     \* per process: response['Credentials']
    result,       \* per process: how main() ended
    calls,        \* per process: the service calls made, in order
    stderr,       \* per process: what was printed to stderr
    prompts,      \* per process: how often getpass was called
    listing,      \* per process: the serials list of find_mfa_for_user
    svc,          \* per process: what botocore and the services answered
    fd,           \* per process: inode of the open temporary file, 0 if none
    off,          \* per process: file offset of fd
    buf,          \* per process: the text credentials.write produces
    dir,          \* directory: path -> inode, 0 if the path does not exist
    inodes,       \* inode -> content
    orig          \* the directory and inodes when the invocations started

vars == <<args, pc, credentials, loaded, serial, user, response, result, calls,
          stderr, prompts, listing, svc, fd, off, buf, dir, inodes, orig>>

Running == [kind |-> "running"]
Return(status) == [kind |-> "return", status |-> status]
\* a variant that catches the exception and reports it as user-recoverable
CaughtAsRecoverable(exc) == Return(USER_RECOVERABLE_ERROR)
Raise(exc) == [kind |-> "raise", exc |-> exc]

Terminal == {"returned", "raised", "crashed", "off"}

\* what a reader of path sees
Exists(path) == dir[path] # 0
Content(path) == IF Exists(path) THEN inodes[dir[path]] ELSE <<>>
OrigExists(path) == orig.dir[path] # 0
OrigContent(path) == IF OrigExists(path) THEN orig.inodes[orig.dir[path]] ELSE <<>>

\* the file system before the invocations: the credentials file, if any, is
\* inode 1, a leftover temporary file, if any, the next one
InitFs(hasFile, file, hasTmp) ==
    /\ inodes = (IF hasFile THEN <<file>> ELSE <<>>)
                  \o (IF hasTmp THEN <<StaleTmp>> ELSE <<>>)
    /\ dir = [q \in Paths |->
               IF q = CredPath THEN (IF hasFile THEN 1 ELSE 0)
               ELSE IF hasTmp THEN (IF hasFile THEN 2 ELSE 1) ELSE 0]
    /\ orig = [dir |-> dir, inodes |-> inodes]

InitProcs(a, started) ==
    /\ args = a
    /\ pc = [p \in Procs |-> IF p \in started THEN "start" ELSE "off"]
    /\ credentials = [p \in Procs |-> <<>>]
    /\ loaded = [p \in Procs |-> <<>>]
    /\ serial = [p \in Procs |-> None]
    /\ user = [p \in Procs |-> None]
    /\ response = [p \in Procs |-> NoCreds]
    /\ result = [p \in Procs |-> Running]
    /\ calls = [p \in Procs |-> <<>>]
    /\ stderr = [p \in Procs |-> <<>>]
    /\ prompts = [p \in Procs |-> 0]
    /\ listing = [p \in Procs |-> [done |-> FALSE, serials |-> <<>>]]
    /\ svc = [p \in Procs |-> [profile |-> "unasked", iam |-> "unasked",
                                sts |-> "unasked"]]
    /\ fd = [p \in Procs |-> 0]
    /\ off = [p \in Procs |-> 0]
    /\ buf = [p \in Procs |-> <<>>]

\* the arguments of one invocation
ArgSpace ==
    {Args(FALSE, i, t, s, c, r, d) :
        i \in {"identity"}, t \in ProfileNames, s \in SerialArgs,
        c \in TokenArgs, r \in RoleArgs, d \in Durations}
    \cup {Args(TRUE, "identity", "default", None, None, None, SIX_HOURS_IN_SECONDS)}

\* arguments with which the run depends on the service's answers alone
PlainArgs ==
    {Args(FALSE, "identity", t, "arn:aws:iam::1:mfa/explicit", "123456", r,
          SIX_HOURS_IN_SECONDS) : t \in ProfileNames, r \in {None, "arn:aws:iam::1:role/r"}}

\* one invocation: every file with the plain arguments, and every
\* combination of arguments with one file
Init ==
    \/ /\ \E hasFile \in BOOLEAN, file \in Files, hasTmp \in BOOLEAN :
            /\ (~hasFile => file = FileLower)
            /\ InitFs(hasFile, file, hasTmp)
       /\ \E a \in PlainArgs :
            InitProcs([p \in Procs |-> IF p = 1 THEN a ELSE DefaultArgs], {1})
    \/ /\ InitFs(TRUE, FileLower, FALSE)
       /\ \E a \in ArgSpace :
            InitProcs([p \in Procs |-> IF p = 1 THEN a ELSE DefaultArgs], {1})

\* ------------------------------------------------------------------ actions
Ends(p, r) ==
    /\ result' = [result EXCEPT ![p] = r]
    /\ pc' = [pc EXCEPT ![p] = IF r.kind = "return" THEN "returned" ELSE "raised"]

Goes(p, to) ==
    /\ pc' = [pc EXCEPT ![p] = to]
    /\ UNCHANGED result

Says(p, msg) == stderr' = [stderr EXCEPT ![p] = Append(@, msg)]
Calls(p, call) == calls' = [calls EXCEPT ![p] = Append(@, call)]

\* lines 24-26: --version prints the version and returns
Version(p) ==
    /\ pc[p] = "start"
    /\ args[p].version
    /\ Ends(p, Return(OK))
    /\ UNCHANGED <<args, credentials, loaded, serial, user, response, calls,
                   stderr, prompts, fd, off, buf, dir, inodes, orig, listing,
                   svc>>

\* lines 28-29: credentials.read; a missing file is skipped silently
Load(p) ==
    /\ pc[p] = "start"
    /\ ~args[p].version
    /\ LET path == args[p].aws_credentials
           parsed == IF Exists(path) THEN Parse(Content(path))
                     ELSE [ok |-> TRUE, store |-> <<>>] IN
       /\ inodes' = IF Exists(path)
                    THEN [inodes EXCEPT ![dir[path]] = ReadEffect(@)]
                    ELSE inodes
       /\ IF parsed.ok
          THEN /\ credentials' = [credentials EXCEPT ![p] = parsed.store]
               /\ loaded' = [loaded EXCEPT ![p] = parsed.store]
               /\ Goes(p, "session")
          ELSE /\ Ends(p, Raise("ParsingError"))
               /\ UNCHANGED <<credentials, loaded>>
    /\ UNCHANGED <<args, serial, user, response, calls, stderr, prompts, fd,
                   off, buf, dir, orig, listing, svc>>

\* lines 31-38: the sessions for the identity profile; botocore looks the
\* profile up in its own configuration
BotoSession(p) ==
    /\ pc[p] = "session"
    /\ \E known \in BOOLEAN :
         /\ svc' = [svc EXCEPT ![p].profile = IF known THEN "known" ELSE "unknown"]
         /\ IF known
            THEN Goes(p, "find") /\ UNCHANGED stderr
            ELSE Ends(p, Return(USER_RECOVERABLE_ERROR)) /\ Says(p, "ProfileNotFound")
    /\ UNCHANGED <<args, credentials, loaded, serial, user, response, calls,
                   prompts, fd, off, buf, dir, inodes, orig, listing>>

\* lines 40-44 with 159-161: an explicit serial is returned as it is
FindExplicit(p) ==
    /\ pc[p] = "find"
    /\ ExplicitSerialGiven(args[p].serial_number)
    /\ serial' = [serial EXCEPT ![p] = args[p].serial_number]
    /\ IF NotFound(args[p].serial_number)
       THEN Ends(p, Return(USER_RECOVERABLE_ERROR)) /\ Says(p, "NoMfaDevice")
       ELSE Goes(p, "token") /\ UNCHANGED stderr
    /\ UNCHANGED <<args, credentials, loaded, user, response, calls, prompts,
                   fd, off, buf, dir, inodes, orig, listing, svc>>

\* lines 163-165: iam.get_user(); its errors are not caught
GetUser(p) ==
    /\ pc[p] = "find"
    /\ ~ExplicitSerialGiven(args[p].serial_number)
    /\ Calls(p, [op |-> "get_user"])
    /\ \/ \E u \in {"root", "user"} :
            /\ user' = [user EXCEPT ![p] = u]
            /\ svc' = [svc EXCEPT ![p].iam = "ok"]
            /\ Goes(p, "list")
       \/ \E e \in ServiceErrors :
            /\ svc' = [svc EXCEPT ![p].iam = e]
            /\ Ends(p, Raise(e))
            /\ UNCHANGED user
    /\ UNCHANGED <<args, credentials, loaded, serial, response, stderr, prompts,
                   fd, off, buf, dir, inodes, orig, listing>>

\* lines 165-186 and 41-44: list the devices (a collection for the root
\* user, a response dict otherwise) and take the first serial.  With more
\* than one device the warning evaluates len(devices), which the dict has
\* and the collection has not (TypeError).
ListDevices(p) ==
    /\ pc[p] = "list"
    /\ Calls(p, [op |-> IF user[p] = "root" THEN "CurrentUser.mfa_devices"
                        ELSE "list_mfa_devices"])
    /\ \/ \E e \in ServiceErrors :
            /\ svc' = [svc EXCEPT ![p].iam = e]
            /\ Ends(p, Raise(e))
            /\ UNCHANGED <<serial, stderr, listing>>
       \/ \E serials \in SerialLists(MaxDevices) :
            /\ listing' = [listing EXCEPT ![p] = [done |-> TRUE, serials |-> serials]]
            /\ UNCHANGED svc
            /\ IF Len(serials) > 1 /\ user[p] = "root"
               THEN /\ Ends(p, Raise("TypeError"))
                    /\ UNCHANGED <<serial, stderr>>
               ELSE LET found == FirstSerial(serials)
                        warned == IF Len(serials) > 1
                                  THEN Append(stderr[p], "Warning") ELSE stderr[p] IN
                    /\ serial' = [serial EXCEPT ![p] = found]
                    /\ IF NotFound(found)
                       THEN /\ Ends(p, Return(USER_RECOVERABLE_ERROR))
                            /\ stderr' = [stderr EXCEPT ![p] = Append(warned, "NoMfaDevice")]
                       ELSE /\ Goes(p, "token")
                            /\ stderr' = [stderr EXCEPT ![p] = warned]
    /\ UNCHANGED <<args, credentials, loaded, user, response, prompts, fd,
                   off, buf, dir, inodes, orig>>

\* line 46: a configured token code is used as it is
TokenConfigured(p) ==
    /\ pc[p] = "token"
    /\ args[p].token_code # None
    /\ Goes(p, "sts")
    /\ UNCHANGED <<args, credentials, loaded, serial, user, response, calls,
                   stderr, prompts, fd, off, buf, dir, inodes, orig, listing,
                   svc>>

\* lines 46-48: prompt until the answer has six characters
Prompt(p) ==
    /\ \/ pc[p] = "token" /\ args[p].token_code = None
       \/ pc[p] = "prompt"
    /\ prompts[p] < MaxPrompts
    /\ \E typed \in TypedCodes :
         /\ args' = [args EXCEPT ![p].token_code = typed]
         /\ Goes(p, IF NeedsPrompt(typed) THEN "prompt" ELSE "sts")
    /\ prompts' = [prompts EXCEPT ![p] = @ + 1]
    /\ UNCHANGED <<credentials, loaded, serial, user, response, calls, stderr,
                   fd, off, buf, dir, inodes, orig, listing, svc>>

\* lines 50-69: assume_role or get_session_token; AccessDenied is
\* user-recoverable, every other error is raised again
Sts(p) ==
    /\ pc[p] = "sts"
    /\ Calls(p, [op |-> IF Truthy(args[p].role_to_assume) THEN "assume_role"
                        ELSE "get_session_token",
                 DurationSeconds |-> DurationSeconds(args[p].role_to_assume,
                                                     args[p].duration),
                 RoleArn |-> IF Truthy(args[p].role_to_assume)
                             THEN args[p].role_to_assume ELSE None,
                 RoleSessionName |-> IF Truthy(args[p].role_to_assume)
                                     THEN args[p].role_session_name ELSE None,
                 SerialNumber |-> serial[p],
                 TokenCode |-> args[p].token_code])
    /\ \/ \E tc \in TempCreds :
            /\ response' = [response EXCEPT ![p] = tc]
            /\ svc' = [svc EXCEPT ![p].sts = "ok"]
            /\ Goes(p, "update")
            /\ UNCHANGED stderr
       \/ \E e \in ServiceErrors :
            /\ svc' = [svc EXCEPT ![p].sts = e]
            /\ UNCHANGED response
            /\ IF IsRecoverable(e)
               THEN Ends(p, Return(USER_RECOVERABLE_ERROR)) /\ Says(p, e)
               ELSE Ends(p, Raise(e)) /\ UNCHANGED stderr
    /\ UNCHANGED <<args, credentials, loaded, serial, user, prompts, fd, off,
                   buf, dir, inodes, orig, listing>>

\* a variant that also records the device the session was made with
UpdateRecordingSerial(p) ==
    /\ pc[p] = "update"
    /\ LET r == ReplaceProfile(credentials[p], args[p].identity_profile,
                               args[p].target_profile, response[p])
           n == CHOOSE i \in 1..Len(r.store) :
                    r.store[i].name = args[p].target_profile IN
       /\ credentials' = [credentials EXCEPT ![p] =
                             IF r.ok
                             THEN [r.store EXCEPT ![n].opts =
                                     SetOption(@, "mfa_serial", serial[p])]
                             ELSE r.store]
       /\ IF r.ok THEN Goes(p, "open") ELSE Ends(p, Raise("ConfigError"))
    /\ UNCHANGED <<args, loaded, serial, user, response, calls, stderr, prompts,
                   fd, off, buf, dir, inodes, orig, listing, svc>>

\* lines 70-73 and 190-201: replace the target profile in memory
Update(p) ==
    /\ pc[p] = "update"
    /\ LET r == ReplaceProfile(credentials[p], args[p].identity_profile,
                               args[p].target_profile, response[p]) IN
       /\ credentials' = [credentials EXCEPT ![p] = r.store]
       /\ IF r.ok THEN Goes(p, "open") ELSE Ends(p, Raise("ConfigError"))
    /\ UNCHANGED <<args, loaded, serial, user, response, calls, stderr, prompts,
                   fd, off, buf, dir, inodes, orig, listing, svc>>

\* lines 202-204: open(temp, "w") creates the file or truncates the one
\* that is there; credentials.write fills the file object's buffer
OpenTemp(p) ==
    /\ pc[p] = "open"
    /\ LET tmp == TempFile(args[p].aws_credentials) IN
       IF Exists(tmp)
       THEN /\ inodes' = [inodes EXCEPT ![dir[tmp]] = <<>>]
            /\ fd' = [fd EXCEPT ![p] = dir[tmp]]
            /\ UNCHANGED dir
       ELSE /\ inodes' = Append(inodes, <<>>)
            /\ dir' = [dir EXCEPT ![tmp] = Len(inodes) + 1]
            /\ fd' = [fd EXCEPT ![p] = Len(inodes) + 1]
    /\ off' = [off EXCEPT ![p] = 0]
    /\ buf' = [buf EXCEPT ![p] = Serialize(credentials[p])]
    /\ Goes(p, "write")
    /\ UNCHANGED <<args, credentials, loaded, serial, user, response, calls,
                   stderr, prompts, orig, listing, svc>>

\* line 203: the open fails (no permission, no such directory)
OpenFails(p) ==
    /\ pc[p] = "open"
    /\ Ends(p, Raise("OSError"))
    /\ UNCHANGED <<args, credentials, loaded, serial, user, response, calls,
                   stderr, prompts, fd, off, buf, dir, inodes, orig, listing,
                   svc>>

\* lines 203-204: the buffer reaches the file in one or more write calls;
\* after the last one the file is closed
WriteChunk(p) ==
    /\ pc[p] = "write"
    /\ \E n \in 1..(Len(buf[p]) - off[p]) :
         /\ inodes' = [inodes EXCEPT ![fd[p]] =
                          WriteAt(@, off[p], SubSeq(buf[p], off[p] + 1, off[p] + n))]
         /\ off' = [off EXCEPT ![p] = @ + n]
         /\ IF off[p] + n = Len(buf[p])
            THEN Goes(p, "rename") /\ fd' = [fd EXCEPT ![p] = 0]
            ELSE Goes(p, "write") /\ UNCHANGED fd
    /\ UNCHANGED <<args, credentials, loaded, serial, user, response, calls,
                   stderr, prompts, buf, dir, orig, listing, svc>>

\* lines 203-204: a write fails (disk full); the with block closes the file
WriteFails(p) ==
    /\ pc[p] = "write"
    /\ fd' = [fd EXCEPT ![p] = 0]
    /\ Ends(p, Raise("OSError"))
    /\ UNCHANGED <<args, credentials, loaded, serial, user, response, calls,
                   stderr, prompts, off, buf, dir, inodes, orig, listing, svc>>

\* a variant that copies the temporary file over the credentials file and
\* leaves it where it is
RenameKeepingTemp(p) ==
    /\ pc[p] = "rename"
    /\ LET tmp == TempFile(args[p].aws_credentials)
           path == args[p].aws_credentials IN
       IF Exists(tmp)
       THEN /\ dir' = [dir EXCEPT ![path] = dir[tmp]]
            /\ Ends(p, Return(OK))
       ELSE /\ Ends(p, Raise("FileNotFoundError"))
            /\ UNCHANGED dir
    /\ UNCHANGED <<args, credentials, loaded, serial, user, response, calls,
                   stderr, prompts, fd, off, buf, inodes, orig, listing, svc>>

\* lines 205 and 74: os.rename(temp, args.aws_credentials), return OK
Rename(p) ==
    /\ pc[p] = "rename"
    /\ LET tmp == TempFile(args[p].aws_credentials)
           path == args[p].aws_credentials IN
       IF Exists(tmp)
       THEN /\ dir' = IF tmp = path THEN dir
                      ELSE [dir EXCEPT ![path] = dir[tmp], ![tmp] = 0]
            /\ Ends(p, Return(OK))
       ELSE /\ Ends(p, Raise("FileNotFoundError"))
            /\ UNCHANGED dir
    /\ UNCHANGED <<args, credentials, loaded, serial, user, response, calls,
                   stderr, prompts, fd, off, buf, inodes, orig, listing, svc>>

\* line 205: the rename fails (no permission)
RenameFails(p) ==
    /\ pc[p] = "rename"
    /\ Ends(p, Raise("OSError"))
    /\ UNCHANGED <<args, credentials, loaded, serial, user, response, calls,
                   stderr, prompts, fd, off, buf, dir, inodes, orig, listing,
                   svc>>

\* the process is killed
Crash(p) ==
    /\ pc[p] \notin Terminal
    /\ pc' = [pc EXCEPT ![p] = "crashed"]
    /\ fd' = [fd EXCEPT ![p] = 0]
    /\ UNCHANGED <<args, credentials, loaded, serial, user, response, result,
                   calls, stderr, prompts, off, buf, dir, inodes, orig, listing,
                   svc>>

Step(p) ==
    \/ Version(p)
    \/ Load(p)
    \/ BotoSession(p)
    \/ FindExplicit(p)
    \/ GetUser(p)
    \/ ListDevices(p)
    \/ TokenConfigured(p)
    \/ Prompt(p)
    \/ Sts(p)
    \/ Update(p)
    \/ OpenTemp(p)
    \/ OpenFails(p)
    \/ WriteChunk(p)
    \/ WriteFails(p)
    \/ Rename(p)
    \/ RenameFails(p)
    \/ Crash(p)

Next == \E p \in Procs : Step(p)

Spec == Init /\ [][Next]_vars


\* two invocations started against the same credentials file
FileShort == <<Sec("identity"), Opt("aws_access_key_id", "AKIAIDENT")>>

ConcArgs ==
    {Args(TRUE, "identity", "default", None, None, None, SIX_HOURS_IN_SECONDS),
     Args(FALSE, "identity", "default", None, None, None, SIX_HOURS_IN_SECONDS),
     Args(FALSE, "identity", "default", "arn:aws:iam::1:mfa/explicit", "123456",
          "arn:aws:iam::1:role/r", SIX_HOURS_IN_SECONDS)}

InitConc ==
    /\ InitFs(TRUE, FileShort, FALSE)
    /\ \E a \in ConcArgs :
         InitProcs([p \in Procs |-> IF p = 1 THEN a
                    ELSE Args(FALSE, "identity", "default",
                              "arn:aws:iam::1:mfa/explicit", "123456", None,
                              SIX_HOURS_IN_SECONDS)], Procs)

SpecConc == InitConc /\ [][Next]_vars


\* =================================================================== claims
\* the invocation the single-invocation claims speak of
Me == CHOOSE p \in Procs : \A q \in Procs : p <= q

Identity(p) == args[p].identity_profile
Target(p) == args[p].target_profile

\* the run went through the workflow and returned OK
Succeeded(p) ==
    pc[p] = "returned" /\ result[p] = Return(OK) /\ ~args[p].version

\* a file as its reader sees it, keys as written: the section an option
\* line belongs to, the sections, and each section's (key, value) pairs
HeaderBefore(lines, i) ==
    IF \E j \in 1..(i - 1) : lines[j].t = "sec"
    THEN lines[CHOOSE j \in 1..(i - 1) :
                 /\ lines[j].t = "sec"
                 /\ \A k \in (j + 1)..(i - 1) : lines[k].t # "sec"].a
    ELSE None
FileSections(lines) == {lines[i].a : i \in {j \in 1..Len(lines) : lines[j].t = "sec"}}
FileFields(lines, n) ==
    {[k |-> lines[i].a, v |-> lines[i].b] :
        i \in {j \in 1..Len(lines) : lines[j].t = "opt" /\ HeaderBefore(lines, j) = n}}

\* the four fields of a profile that hold the temporary credentials
TemporaryKeys == {"aws_access_key_id", "aws_secret_access_key",
                  "aws_session_token", "awsmfa_expiration"}
TemporaryFields(tc) ==
    {[k |-> "aws_access_key_id", v |-> tc.AccessKeyId],
     [k |-> "aws_secret_access_key", v |-> tc.SecretAccessKey],
     [k |-> "aws_session_token", v |-> tc.SessionToken],
     [k |-> "awsmfa_expiration", v |-> isoformat(tc.Expiration)]}

\* the file system is as it was when the invocation started
DiskUntouched == dir = orig.dir /\ inodes = orig.inodes
\* the credentials path shows what it showed when the invocation started
CredentialsFileAsBefore ==
    /\ Exists(CredPath) = OrigExists(CredPath)
    /\ Content(CredPath) = OrigContent(CredPath)

\* C1: after a successful rotation every profile other than the target has
\* exactly the keys and values it had before the run, in memory (against
\* the store as loaded) and in the file on disk (against the file as it
\* was, keys as written there).
C1_OtherProfilesUntouched ==
    Succeeded(Me) =>
      /\ SectionNames(credentials[Me]) \ {Target(Me)}
           = SectionNames(loaded[Me]) \ {Target(Me)}
      /\ \A n \in SectionNames(loaded[Me]) \ {Target(Me)} :
           Fields(SectionOf(credentials[Me], n).opts)
             = Fields(SectionOf(loaded[Me], n).opts)
      /\ FileSections(Content(CredPath)) \ {Target(Me)}
           = FileSections(OrigContent(CredPath)) \ {Target(Me)}
      /\ \A n \in FileSections(OrigContent(CredPath)) \ {Target(Me)} :
           FileFields(Content(CredPath), n) = FileFields(OrigContent(CredPath), n)

\* C1, in memory only: the part of the claim the code keeps
C1_OtherProfilesUntouchedInMemory ==
    Succeeded(Me) =>
      /\ SectionNames(credentials[Me]) \ {Target(Me)}
           = SectionNames(loaded[Me]) \ {Target(Me)}
      /\ \A n \in SectionNames(loaded[Me]) \ {Target(Me)} :
           Fields(SectionOf(credentials[Me], n).opts)
             = Fields(SectionOf(loaded[Me], n).opts)

\* C2: after a successful rotation the target profile is exactly the
\* identity profile's fields as loaded, with the four temporary fields set
\* to the temporary credentials' values.
C2_TargetIsIdentityPlusTemporary ==
    Succeeded(Me) =>
      Fields(SectionOf(credentials[Me], Target(Me)).opts)
        = {f \in Fields(SectionOf(loaded[Me], Identity(Me)).opts) :
              f.k \notin TemporaryKeys}
          \cup TemporaryFields(response[Me])

\* C3: at every point of one invocation, crashes and I/O failures included,
\* the credentials path shows the complete original content or the complete
\* new content; it shows the original unless the run renamed and returned.
C3_CredentialsFileOldOrNew ==
    /\ ~Succeeded(Me) => CredentialsFileAsBefore
    /\ Succeeded(Me) =>
         /\ Exists(CredPath)
         /\ Content(CredPath) = Serialize(credentials[Me])

\* C3 witness: the process died in the middle of writing the temporary file
C3_CrashedMidWrite ==
    /\ pc[Me] = "crashed"
    /\ off[Me] > 0
    /\ off[Me] < Len(buf[Me])
    /\ Content(TmpPath) = SubSeq(buf[Me], 1, off[Me])
    /\ OrigExists(CredPath)

\* C4: with two invocations against one credentials file, a reader of the
\* credentials path sees the original file or the complete output of one
\* of the invocations, never a partial file.
C4_ReaderSeesCompleteFile ==
    \/ CredentialsFileAsBefore
    \/ \E p \in Procs :
         /\ pc[p] \in {"write", "rename", "returned", "raised", "crashed"}
         /\ buf[p] # <<>>
         /\ Content(CredPath) = buf[p]

\* C5: a run that ended before step 4 (no session was acquired) has left
\* the file system as it was: the credentials file unchanged and no
\* temporary file created.
EndedBeforeStep4(p) ==
    /\ pc[p] \in {"returned", "raised"}
    /\ svc[p].sts # "ok"
C5_NoMutationBeforeStep4 ==
    EndedBeforeStep4(Me) => DiskUntouched

\* C5 witness: the session call was rejected with AccessDenied
C5_AccessDeniedRun ==
    /\ pc[Me] = "returned"
    /\ svc[Me].sts = "AccessDenied"
    /\ result[Me] = Return(USER_RECOVERABLE_ERROR)
    /\ OrigExists(CredPath)


\* the service calls of an invocation, by operation
CallsOf(p, ops) == {i \in 1..Len(calls[p]) : calls[p][i].op \in ops}
SessionOps == {"assume_role", "get_session_token"}
IamOps == {"get_user", "list_mfa_devices", "CurrentUser.mfa_devices"}

\* C6: with a role configured the call is assume_role with DurationSeconds
\* the smaller of the requested duration and 3600; without one it is
\* get_session_token with DurationSeconds the requested duration.
C6_DurationClampedForRoleOnly ==
    \A i \in CallsOf(Me, SessionOps) :
      LET c == calls[Me][i]
          d == args[Me].duration IN
      IF Truthy(args[Me].role_to_assume)
      THEN /\ c.op = "assume_role"
           /\ c.DurationSeconds <= 3600
           /\ d <= 3600 => c.DurationSeconds = d
           /\ d > 3600 => c.DurationSeconds = 3600
      ELSE /\ c.op = "get_session_token"
           /\ c.DurationSeconds = d

\* C6 witness: six hours requested for a role, one hour asked of the service
C6_SixHoursClamped ==
    \E i \in CallsOf(Me, {"assume_role"}) :
      /\ args[Me].duration = 21600
      /\ calls[Me][i].DurationSeconds = 3600

\* C7: with a non-empty explicit serial no identity-service call is made
\* and the serial used from then on is the explicit one, unchanged.
PastResolution(p) ==
    pc[p] \in {"token", "prompt", "sts", "update", "open", "write", "rename"}
C7_ExplicitSerialNoCall ==
    Truthy(args[Me].serial_number) =>
      /\ CallsOf(Me, IamOps) = {}
      /\ ~listing[Me].done
      /\ PastResolution(Me) => serial[Me] = args[Me].serial_number
      /\ \A i \in CallsOf(Me, SessionOps) :
           calls[Me][i].SerialNumber = args[Me].serial_number

\* C7 witness: the explicit serial was resolved and a session call made with it
C7_ExplicitSerialUsed ==
    /\ Truthy(args[Me].serial_number)
    /\ CallsOf(Me, SessionOps) # {}
    /\ serial[Me] = args[Me].serial_number

\* C8: when the listing returns no device the run returns status 1 and no
\* later step runs: no prompt, no session call, no write to the file system.
ListedNoDevice(p) == listing[p].done /\ listing[p].serials = <<>>
C8_NoDeviceStopsTheRun ==
    ListedNoDevice(Me) =>
      /\ ~Truthy(args[Me].serial_number)
      /\ pc[Me] = "returned"
      /\ result[Me] = Return(USER_RECOVERABLE_ERROR)
      /\ prompts[Me] = 0
      /\ CallsOf(Me, SessionOps) = {}
      /\ DiskUntouched

\* C8 witness: a root identity without devices
C8_RootWithoutDevices ==
    ListedNoDevice(Me) /\ user[Me] = "root" /\ pc[Me] = "returned"

\* C9: when the listing returns more than one device, for a root identity
\* as for a standard one, the first serial listed is the one resolved, a
\* warning is printed and resolution does not end in an error.
ListedSeveral(p) == listing[p].done /\ Len(listing[p].serials) > 1
Warned(p) == \E i \in 1..Len(stderr[p]) : stderr[p][i] = "Warning"
C9_SeveralDevicesFirstWithWarning ==
    ListedSeveral(Me) =>
      /\ serial[Me] = listing[Me].serials[1]
      /\ Warned(Me)
      /\ result[Me] # Raise("TypeError")

\* C9 for a standard identity: the case in which the code does as claimed
C9_StandardUserFirstWithWarning ==
    (ListedSeveral(Me) /\ user[Me] = "user") =>
      /\ serial[Me] = listing[Me].serials[1]
      /\ Warned(Me)
      /\ result[Me] # Raise("TypeError")

\* C10: the run's exit status is 1 exactly when the identity profile is
\* unknown, no MFA device is found, or the session call fails with
\* AccessDenied; any other error of the session call is raised again and
\* ends the run with a status other than 1; the status is 0 only when the
\* workflow succeeded.  Stated for the runs that made the session call.
Ended(p) == pc[p] \in {"returned", "raised"}
UserRecoverableCause(p) ==
    \/ svc[p].profile = "unknown"
    \/ ListedNoDevice(p)
    \/ svc[p].sts = "AccessDenied"
OtherSessionError(p) == svc[p].sts \notin {"unasked", "ok", "AccessDenied"}
WorkflowSucceeded(p) ==
    /\ svc[p].sts = "ok"
    /\ Exists(CredPath)
    /\ Content(CredPath) = Serialize(credentials[p])
    /\ HasSection(credentials[p], Target(p))
Other == CHOOSE p \in Procs : p # Me

TwiceArgs ==
    PlainArgs
    \cup {Args(TRUE, "identity", "default", None, None, None, SIX_HOURS_IN_SECONDS),
          Args(FALSE, "identity", "default", None, None, None, SIX_HOURS_IN_SECONDS)}

InitTwice ==
    /\ \E hasFile \in BOOLEAN, file \in Files :
         /\ (~hasFile => file = FileLower)
         /\ InitFs(hasFile, file, FALSE)
    /\ \E a \in TwiceArgs :
         /\ (a \notin PlainArgs => OrigContent(CredPath) = FileLower)
         /\ InitProcs([p \in Procs |-> a], Procs)

NextTwice ==
    \/ Step(Me)
    \/ pc[Me] = "returned" /\ Step(Other)

SpecTwice == InitTwice /\ [][NextTwice]_vars

\* C11: two runs in a row with the same identity profile and target
\* profile: when both received the same temporary credentials the file
\* after the second run is the file the first run wrote; when they received
\* different ones, no field of the target profile in the file holds a
\* value of the first run's temporary credentials.
BothSucceeded == Succeeded(Me) /\ Succeeded(Other)
C11_RerunIsIdempotent ==
    BothSucceeded =>
      /\ response[Me] = response[Other] => Content(CredPath) = buf[Me]
      /\ response[Me] # response[Other] =>
           {f.v : f \in FileFields(Content(CredPath), Target(Other))}
             \cap {g.v : g \in TemporaryFields(response[Me])} = {}

\* C11 witness: the second run got the same credentials as the first and
\* rewrote a file that held a stale target profile before the first run
C11_SecondRunSameCredentials ==
    /\ BothSucceeded
    /\ response[Me] = response[Other]
    /\ FileFields(OrigContent(CredPath), Target(Me)) # {}
    /\ Identity(Me) # Target(Me)
    /\ dir[CredPath] # orig.dir[CredPath]


\* ---------------------------------------------------------------- round trip
\* the store a later load of the credentials path yields
Reloaded == Parse(Content(CredPath))
StoreKeys(store, n) == {f.k : f \in Fields(SectionOf(store, n).opts)}

\* C12: after a successful rotation, loading the persisted file again
\* yields the store that was in memory when it was persisted: the same
\* profile names, each once, with the same keys and values; and the keys of
\* every profile other than the target are the keys of that profile in the
\* original file, in the case they were written there.
C12_RoundTripKeepsStore ==
    Succeeded(Me) =>
      /\ Reloaded.ok
      /\ Reloaded.store = credentials[Me]
      /\ \A i, j \in 1..Len(Reloaded.store) :
           Reloaded.store[i].name = Reloaded.store[j].name => i = j
      /\ \A n \in SectionNames(Reloaded.store) \ {Target(Me)} :
           StoreKeys(Reloaded.store, n)
             = {f.k : f \in FileFields(OrigContent(CredPath), n)}


\* ---------------------------------------------------- first-time store
\* the invocation ended on a failure of open, write or rename
IoFailed(p) == result[p] \in {Raise("OSError"), Raise("FileNotFoundError")}

\* C13: when there is no credentials file at load time the load yields an
\* empty store and no error, and a run that then acquired a session and
\* met no input/output failure ends successfully with a file at the
\* credentials path that contains the target profile.
C13_MissingFileFirstTimeStore ==
    (~OrigExists(CredPath) /\ ~args[Me].version) =>
      /\ pc[Me] # "start" /\ pc[Me] # "crashed" =>
           loaded[Me] = <<>> /\ result[Me] # Raise("ParsingError")
      /\ (svc[Me].sts = "ok" /\ Ended(Me) /\ ~IoFailed(Me)) =>
           /\ Succeeded(Me)
           /\ Exists(CredPath)
           /\ Target(Me) \in FileSections(Content(CredPath))


\* ------------------------------------------------------------ token code
\* C14: whether the token code was configured or typed at the prompt, every
\* get_session_token or assume_role call is made with a token code of
\* exactly six characters.
C14_TokenCodeHasSixCharacters ==
    \A i \in CallsOf(Me, SessionOps) :
        /\ calls[Me][i].TokenCode # None
        /\ Len(calls[Me][i].TokenCode) = 6


\* ---------------------------------------------------- order of the workflow
\* the states of the workflow, by the position in main
Stage(l) ==
    CASE l \in {"start", "session", "find", "list"} -> "Start"
      [] l \in {"token", "prompt"} -> "DeviceResolved"
      [] l = "sts" -> "TokenObtained"
      [] l \in {"update", "open", "write", "rename"} -> "SessionAcquired"
      [] OTHER -> "Exit"
StageOrder == <<"Start", "DeviceResolved", "TokenObtained", "SessionAcquired", "Exit">>
StageRank(l) == CHOOSE i \in 1..Len(StageOrder) : StageOrder[i] = Stage(l)
\* the positions in main in program order
Position == <<"start", "session", "find", "list", "token", "prompt", "sts",
              "update", "open", "write", "rename">>
PositionRank(l) ==
    IF \E i \in 1..Len(Position) : Position[i] = l
    THEN CHOOSE i \in 1..Len(Position) : Position[i] = l
    ELSE Len(Position) + 1
ExitedOk(p) == pc[p] = "returned" /\ result[p] = Return(OK)

\* one step of the run keeps the order: the position never moves back and
\* stays only in the prompt loop and between the chunks of the write; a
\* stage is left for the next one or for an exit; a session call is the
\* first one and comes with a serial number and a token code; the store is
\* loaded at the start only and replaced at step 4 only; the file system is
\* written after the session was acquired only.
OrderStep ==
    /\ PositionRank(pc'[Me]) >= PositionRank(pc[Me])
    /\ (pc'[Me] = pc[Me] /\ pc[Me] \notin Terminal) => pc[Me] \in {"prompt", "write"}
    /\ StageRank(pc'[Me]) \in {StageRank(pc[Me]), StageRank(pc[Me]) + 1,
                               Len(StageOrder)}
    /\ Len(calls'[Me]) > Len(calls[Me]) /\ calls'[Me][Len(calls'[Me])].op \in SessionOps =>
         /\ CallsOf(Me, SessionOps) = {}
         /\ Stage(pc[Me]) = "TokenObtained"
         /\ Truthy(serial[Me])
         /\ args[Me].token_code # None
    /\ loaded'[Me] # loaded[Me] => pc[Me] = "start"
    /\ credentials'[Me] # credentials[Me] => pc[Me] \in {"start", "update"}
    /\ (dir' # dir \/ inodes' # inodes) =>
         Stage(pc[Me]) = "SessionAcquired" /\ svc[Me].sts = "ok"
    /\ dir'[CredPath] # dir[CredPath] => pc[Me] = "rename" /\ ExitedOk(Me)'

\* the store was loaded from the file as it was, the target profile was
\* replaced in it, and what was persisted is that store, as one new file
LoadedReplacedPersistedOnce ==
    /\ loaded[Me] = (IF OrigExists(CredPath) THEN Parse(OrigContent(CredPath)).store
                     ELSE <<>>)
    /\ SectionNames(credentials[Me]) = SectionNames(loaded[Me]) \cup {Target(Me)}
    /\ TemporaryFields(response[Me])
         \subseteq Fields(SectionOf(credentials[Me], Target(Me)).opts)
    /\ Content(CredPath) = Serialize(credentials[Me])
    /\ dir[CredPath] # orig.dir[CredPath]
    /\ Len(inodes) <= Len(orig.inodes) + 1

\* C15 as stated: every step of a run keeps the order Start,
\* DeviceResolved, TokenObtained, SessionAcquired, Persisted, and every run
\* that exits with status 0 has loaded the store, replaced the target
\* profile and persisted the store once.
C15_EveryStatusZeroRunPersisted ==
    [][OrderStep]_vars /\ [](ExitedOk(Me) => LoadedReplacedPersistedOnce)

\* C15, amended: the same order, and every run that exits with status 0,
\* other than one that was asked for the version only, has loaded the
\* store, replaced the target profile and persisted the store once.
C15_WorkflowOrder ==
    [][OrderStep]_vars
      /\ []((ExitedOk(Me) /\ ~args[Me].version) => LoadedReplacedPersistedOnce)

\* C15 witness: a run has gone through the prompt and every stage and has
\* returned 0
C15_RunThroughEveryStage ==
    /\ Succeeded(Me)
    /\ prompts[Me] > 0
    /\ Len(calls[Me]) > 1
    /\ CallsOf(Me, SessionOps) # {}


\* ------------------------------------------- errors of device resolution
\* get_user or the device listing failed with an error of the service
ResolutionFailed(p) == svc[p].iam \in ServiceErrors

SpecSequential == Init /\ [][Next]_vars /\ WF_vars(Sts(Me))

\* one step of the run, seen from the prompt: a prompt is shown only while
\* no token code is there (the first time) or the last entry had not six
\* characters; it makes no call and leads to the session call exactly when
\* the entry has six characters; between the resolution of the device and
\* the session call nothing but prompts happen; a configured token code
\* leads to the session call without a prompt.
PromptStep ==
    /\ prompts'[Me] > prompts[Me] =>
         /\ IF prompts[Me] = 0 THEN args[Me].token_code = None
            ELSE Len(args[Me].token_code) # 6
         /\ calls'[Me] = calls[Me]
         /\ svc'[Me] = svc[Me]
         /\ pc'[Me] = (IF Len(args'[Me].token_code) = 6 THEN "sts" ELSE "prompt")
    /\ pc[Me] \in {"token", "prompt"} =>
         /\ calls'[Me] = calls[Me]
         /\ pc'[Me] \in {"prompt", "sts", "crashed", pc[Me]}
    /\ pc[Me] = "prompt" /\ pc'[Me] \in {"prompt", "sts"} => prompts'[Me] > prompts[Me]
    /\ pc[Me] = "token" /\ args[Me].token_code # None =>
         /\ prompts'[Me] = prompts[Me]
         /\ args'[Me] = args[Me]
         /\ pc'[Me] \in {"sts", "crashed", "token"}

\* C17: with no configured token code the prompt is repeated while the
\* entry has not six characters and left on the first entry that has; no
\* service call is made in the loop; a run that left the loop goes on to the
\* session call unless it is killed; with a configured token code no prompt
\* is shown.
C17_PromptUntilSixCharacters ==
    /\ [][PromptStep]_vars
    /\ [](pc[Me] = "prompt" => prompts[Me] > 0 /\ Len(args[Me].token_code) # 6)
    /\ [](pc[Me] = "sts" /\ prompts[Me] > 0 => Len(args[Me].token_code) = 6)
    /\ (pc[Me] = "sts" /\ prompts[Me] > 0)
         ~> (CallsOf(Me, SessionOps) # {} \/ pc[Me] = "crashed")

\* C17 witness: the first entry had not six characters, the prompt came
\* again, the second entry had, and the session call was made
C17_SecondEntryAccepted ==
    /\ prompts[Me] = 2
    /\ Len(args[Me].token_code) = 6
    /\ CallsOf(Me, SessionOps) # {}
    /\ CallsOf(Me, SessionOps) = {Len(calls[Me])}


\* --------------------------------------------- what the file depends on
\* two invocations on one credentials file with the same profiles and the
\* same role, and with different serial numbers, token codes, durations
\* and role session names
PairArgs ==
    {Args(TRUE, "identity", "default", None, None, None, SIX_HOURS_IN_SECONDS),
     [Args(FALSE, "identity", "default", None, None, "arn:aws:iam::1:role/r",
           ONE_HOUR_IN_SECONDS)
        EXCEPT !.role_session_name = "awsmfa_other"]}

InitPair ==
    /\ InitFs(TRUE, FileShort, FALSE)
    /\ \E a \in PairArgs :
         InitProcs([p \in Procs |-> IF p = Me THEN a
                    ELSE Args(FALSE, "identity", "default",
                              "arn:aws:iam::1:mfa/explicit", "123456",
                              "arn:aws:iam::1:role/r", SIX_HOURS_IN_SECONDS)],
                   Procs)

SpecPair == InitPair /\ [][Next]_vars

\* the invocation has handed the serialized store to the write
Wrote(p) == pc[p] \in {"write", "rename", "returned", "raised", "crashed"} /\ buf[p] # <<>>
\* the serial numbers and token codes of the invocations
SerialsAndTokens ==
    ({serial[p] : p \in Procs} \cup {args[p].serial_number : p \in Procs}
       \cup {args[p].token_code : p \in Procs}) \ {None, ""}

\* C18: two invocations that loaded the same store, name the same identity
\* and target profiles and received the same temporary credentials write
\* the same file, whatever their token codes, serial numbers, durations
\* and role session names; and no file ever holds a token code or a serial
\* number.
C18_FileDependsOnStoreAndCredentials ==
    /\ \A p, q \in Procs :
         (/\ Wrote(p) /\ Wrote(q)
          /\ loaded[p] = loaded[q]
          /\ Identity(p) = Identity(q) /\ Target(p) = Target(q)
          /\ response[p] = response[q]) => buf[p] = buf[q]
    /\ \A i \in 1..Len(inodes) : \A j \in 1..Len(inodes[i]) :
         inodes[i][j].a \notin SerialsAndTokens /\ inodes[i][j].b \notin SerialsAndTokens
    /\ \A p \in Procs : \A j \in 1..Len(buf[p]) :
         buf[p][j].a \notin SerialsAndTokens /\ buf[p][j].b \notin SerialsAndTokens

\* C18 witness: both invocations succeeded on the same loaded store with the
\* same temporary credentials, one with a listed device, a typed token
\* code, one hour and its own session name, the other with an explicit
\* serial number, a configured token code and six hours
C18_TwoRunsDifferingInTheRest ==
    /\ Succeeded(Me) /\ Succeeded(Other)
    /\ loaded[Me] = loaded[Other]
    /\ response[Me] = response[Other]
    /\ serial[Me] # serial[Other]
    /\ args[Me].token_code # args[Other].token_code
    /\ args[Me].duration # args[Other].duration
    /\ args[Me].role_session_name # args[Other].role_session_name
    /\ Truthy(args[Me].role_to_assume)


\* ------------------------------------------------------ the temporary file
\* the temporary path shows what it showed when the invocation started
TempAsBefore ==
    /\ dir[TmpPath] = orig.dir[TmpPath]
    /\ Content(TmpPath) = OrigContent(TmpPath)

\* C19: the temporary file is there only from the open for writing to the
\* rename: after a successful run there is no file at the temporary path;
\* a run that ended before step 4 has not created or touched one; and
\* whenever the run is at a position before the write or has ended without
\* an input/output failure, the temporary path is as it was or empty.
C19_TemporaryFileOnlyDuringWrite ==
    /\ Succeeded(Me) => ~Exists(TmpPath)
    /\ EndedBeforeStep4(Me) => TempAsBefore
    /\ PositionRank(pc[Me]) < PositionRank("write") => TempAsBefore
    /\ (Ended(Me) /\ ~IoFailed(Me)) => (TempAsBefore \/ ~Exists(TmpPath))

\* C19 witness: a temporary file left over from an earlier run was there,
\* the run succeeded, and the temporary path is empty
C19_LeftoverGoneAfterSuccess ==
    /\ Succeeded(Me)
    /\ OrigExists(TmpPath)
    /\ ~Exists(TmpPath)
    /\ Content(CredPath) = buf[Me]

====
